---- MODULE Spec2Model ----
(***************************************************************************)
(* A model of the workout-form-optimizer sources:                          *)
(*   src/data/preprocess.py        process_videos (frame sampling)        *)
(*   src/features/angle_utils.py   compute_angle and the named angles     *)
(*   src/ui/overlays.py            Overlays.draw_*                         *)
(*   src/features/pose_estimator.py PoseEstimator                          *)
(* Each component has its own specification (SpecSampler, SpecAngle,       *)
(* SpecOverlay, SpecEstimator); the variables of the other components      *)
(* stay at their idle values.                                              *)
(***************************************************************************)
EXTENDS Integers, Sequences, FiniteSets, TLC

VARIABLES
    \* ---- process_videos ----
    frame_skip,     \* the sampling interval in force (FRAME_SKIP)
    video_paths,    \* the list the rglob scan produced
    vi,             \* position of the for loop in video_paths (1-based)
    pc,             \* position inside process_videos
    opened,         \* per video: cap.isOpened() of its capture
    count,          \* raw frames read so far in the current video
    saved_count,    \* frames saved so far in the current video
    handles,        \* per video: "none", "acquired", "released"
    written,        \* per video: the imwrite calls, in order
    reads_ok,       \* per video: successful reads before the first failed one, -1 while none failed
    \* ---- angle_utils ----
    angle_call,     \* the call being made: function name and arguments
    angle_pc,       \* "ready" or "returned"
    angle_out,      \* outcome of the call
    \* ---- overlays ----
    joints,         \* the joints dict, in insertion order
    angles,         \* the angles argument of the last draw_skeleton
    circle_none,    \* what cv2.circle(frame, None, ...) did in the last draw_skeleton
    overlay_pc,     \* "ready", then the name of the function that was called
    overlay_out,    \* outcome: the draw calls issued and whether the call raised
    \* ---- pose_estimator ----
    model_loaded,   \* PoseEstimator.model_loaded
    calls           \* the calls made on the estimator so far, with their outcomes

samplerVars == <<frame_skip, video_paths, vi, pc, opened, count, saved_count,
                 handles, written, reads_ok>>
angleVars == <<angle_call, angle_pc, angle_out>>
overlayVars == <<joints, angles, circle_none, overlay_pc, overlay_out>>
estimatorVars == <<model_loaded, calls>>
vars == <<samplerVars, angleVars, overlayVars, estimatorVars>>
notSampler == <<angleVars, overlayVars, estimatorVars>>
notAngle == <<samplerVars, overlayVars, estimatorVars>>
notOverlay == <<samplerVars, angleVars, estimatorVars>>
notEstimator == <<samplerVars, angleVars, overlayVars>>

(***************************************************************************)
(* Bounds of the model.                                                    *)
(***************************************************************************)
MaxFrames == 25         \* longest video, in decodable frames

(***************************************************************************)
(* preprocess.py                                                           *)
(***************************************************************************)
INPUT_FOLDER == "data/raw"
OUTPUT_FOLDER == "data/processed"
FRAME_SKIP == 10
SUPPORTED_EXTENSIONS == {".mp4", ".avi", ".mov", ".mkv", ".wmv", ".flv"}

\* The sampling intervals examined: the module constant and smaller strides.
FrameSkips == {1, 2, 3, FRAME_SKIP}

\* Files below INPUT_FOLDER: parent directories relative to it, stem, suffix.
RawTree == {
    [parent |-> <<"squat">>,    stem |-> "video1", suffix |-> ".mp4"],
    [parent |-> <<"deadlift">>, stem |-> "video1", suffix |-> ".MOV"],
    [parent |-> <<"squat">>,    stem |-> "notes",  suffix |-> ".txt"] }

\* str.lower() on the suffixes that occur
Lower(s) == IF s = ".MOV" THEN ".mov" ELSE s

\* os.path.join
Join(a, b) == a \o "/" \o b

\* the videos the scan keeps
IsVideo(p) == Lower(p.suffix) \in SUPPORTED_EXTENSIONS

\* Path.rglob returns the files in an order the file system decides
Orderings(S) ==
    { s \in [1..Cardinality(S) -> S] : \A i, j \in 1..Cardinality(S) : i # j => s[i] # s[j] }

\* save_path = os.path.join(OUTPUT_FOLDER, video_name)
SavePath(video_path) == Join(OUTPUT_FOLDER, video_path.stem)

\* filename = f"frame_{saved_count}.jpg"
FrameFile(k) == "frame_" \o ToString(k) \o ".jpg"

\* if count % FRAME_SKIP == 0
KeepOffByOne(c, n) == (c + 1) % n = 0
Keep(c, n) == c % n = 0

\* for video_path in video_paths: cap = cv2.VideoCapture(str(video_path)).
\* The constructor never raises on a source it cannot open; it returns a
\* capture whose isOpened() is False.
OpenVideo ==
    /\ pc = "for"
    /\ vi <= Len(video_paths)
    /\ \E ok \in BOOLEAN : opened' = [opened EXCEPT ![vi] = ok]
    /\ handles' = [handles EXCEPT ![vi] = "acquired"]
    /\ pc' = "makedirs"
    /\ UNCHANGED <<notSampler, frame_skip, video_paths, vi, count, saved_count, written, reads_ok>>

\* the for loop is exhausted
EndOfVideos ==
    /\ pc = "for"
    /\ vi > Len(video_paths)
    /\ pc' = "done"
    /\ UNCHANGED <<notSampler, frame_skip, video_paths, vi, opened, count, saved_count,
                   handles, written, reads_ok>>

\* os.makedirs(save_path, exist_ok=True); count = 0; saved_count = 0
MakeDirs ==
    /\ pc = "makedirs"
    /\ count' = 0
    /\ saved_count' = 0
    /\ pc' = "read"
    /\ UNCHANGED <<notSampler, frame_skip, video_paths, vi, opened, handles, written, reads_ok>>

\* os.makedirs raises OSError (a file of that name exists, no permission):
\* nothing catches it
MakeDirsRaises ==
    /\ pc = "makedirs"
    /\ pc' = "raised"
    /\ UNCHANGED <<notSampler, frame_skip, video_paths, vi, opened, count, saved_count,
                   handles, written, reads_ok>>

\* success, frame = cap.read() with success true
ReadFrame ==
    /\ pc = "read"
    /\ opened[vi]
    /\ count < MaxFrames
    /\ pc' = "frame"
    /\ UNCHANGED <<notSampler, frame_skip, video_paths, vi, opened, count, saved_count,
                   handles, written, reads_ok>>

\* success, frame = cap.read() with success false: break
ReadFails ==
    /\ pc = "read"
    /\ reads_ok' = [reads_ok EXCEPT ![vi] = count]
    /\ pc' = "release"
    /\ UNCHANGED <<notSampler, frame_skip, video_paths, vi, opened, count, saved_count,
                   handles, written>>

\* a kept frame: resize, imwrite, saved_count += 1; then count += 1
SaveFrame ==
    /\ pc = "frame"
    /\ Keep(count, frame_skip)
    /\ written' = [written EXCEPT ![vi] =
            Append(@, [path |-> Join(SavePath(video_paths[vi]), FrameFile(saved_count)),
                       index |-> saved_count,
                       raw |-> count])]
    /\ saved_count' = saved_count + 1
    /\ count' = count + 1
    /\ pc' = "read"
    /\ UNCHANGED <<notSampler, frame_skip, video_paths, vi, opened, handles, reads_ok>>

\* a frame that is not kept: count += 1
SkipFrame ==
    /\ pc = "frame"
    /\ ~Keep(count, frame_skip)
    /\ count' = count + 1
    /\ pc' = "read"
    /\ UNCHANGED <<notSampler, frame_skip, video_paths, vi, opened, saved_count, handles,
                   written, reads_ok>>

\* cv2.resize or cv2.imwrite raises on a kept frame: nothing in
\* process_videos catches it, so the exception leaves the function
SaveRaises ==
    /\ pc = "frame"
    /\ Keep(count, frame_skip)
    /\ pc' = "raised"
    /\ UNCHANGED <<notSampler, frame_skip, video_paths, vi, opened, count, saved_count,
                   handles, written, reads_ok>>

\* cap.release(), then the next video
Release ==
    /\ pc = "release"
    /\ handles' = [handles EXCEPT ![vi] = "released"]
    /\ vi' = vi + 1
    /\ pc' = "for"
    /\ UNCHANGED <<notSampler, frame_skip, video_paths, opened, count, saved_count, written, reads_ok>>

SamplerNext ==
    \/ OpenVideo
    \/ EndOfVideos
    \/ MakeDirs
    \/ MakeDirsRaises
    \/ ReadFrame
    \/ ReadFails
    \/ SaveFrame
    \/ SkipFrame
    \/ SaveRaises
    \/ Release

\* process_videos() is about to start; nothing else runs
SamplerInit ==
    /\ frame_skip \in FrameSkips
    /\ video_paths \in Orderings({p \in RawTree : IsVideo(p)})
    /\ vi = 1
    /\ pc = "for"
    /\ opened = [i \in 1..Len(video_paths) |-> FALSE]
    /\ count = 0
    /\ saved_count = 0
    /\ handles = [i \in 1..Len(video_paths) |-> "none"]
    /\ written = [i \in 1..Len(video_paths) |-> <<>>]
    /\ reads_ok = [i \in 1..Len(video_paths) |-> -1]
    /\ angle_call = [fn |-> "none"]
    /\ angle_pc = "returned"
    /\ angle_out = [kind |-> "None", v |-> 0]
    /\ joints = <<>>
    /\ angles = [t |-> "None", d |-> <<>>]
    /\ circle_none = "raise"
    /\ overlay_pc = "idle"
    /\ overlay_out = [raised |-> "", drawn |-> <<>>]
    /\ model_loaded = FALSE
    /\ calls = <<>>

SpecSampler == SamplerInit /\ [][SamplerNext]_vars

Videos == 1..Len(video_paths)

\* C1: once a video's read has failed after M successful reads, its saved
\* frames are exactly the raw positions 0, N, 2N, ... below M, saved index k
\* being raw position k*N and named frame_k, with nothing saved later; for
\* N = 10 and M = 25 these are three frames, from raw positions 0, 10, 20.
C1_SamplingExact ==
    \A v \in Videos :
        reads_ok[v] >= 0 =>
            LET M == reads_ok[v]
                N == frame_skip
                w == written[v]
            IN  /\ Len(w) = (M + N - 1) \div N
                /\ \A k \in 0..(Len(w) - 1) :
                        /\ w[k + 1].index = k
                        /\ w[k + 1].raw = k * N
                        /\ k * N < M
                /\ (N = 10 /\ M = 25) => [j \in 1..Len(w) |-> w[j].raw] = <<0, 10, 20>>

C1_Witness ==
    /\ pc = "done"
    /\ frame_skip = 10
    /\ \E v \in Videos :
            /\ reads_ok[v] = 25
            /\ [j \in 1..Len(written[v]) |-> written[v][j].index] = <<0, 1, 2>>

\* C2: a source that cannot be opened makes process_videos signal an error
\* as soon as the capture is constructed: it is never carried on into the
\* directory creation, the read loop or a normal release.
C2_UnopenableSourceSignalled ==
    \A v \in Videos :
        (handles[v] # "none" /\ ~opened[v]) => (pc = "raised" /\ vi = v /\ reads_ok[v] = -1)

\* C3: when process_videos has ended, normally or by an exception, no
\* capture it acquired is still unreleased.
C3_HandlesReleased ==
    pc \in {"done", "raised"} => \A v \in Videos : handles[v] # "acquired"

\* C4: the k-th saved frame of data/raw/{class_name}/{video_name}.<ext> is
\* written to data/processed/{class_name}/{video_name}/frame_{k}.jpg.
C4_OutputKeepsClassName ==
    \A v \in Videos :
        \A k \in 0..(Len(written[v]) - 1) :
            written[v][k + 1].path =
                Join(Join(Join(OUTPUT_FOLDER, video_paths[v].parent[1]),
                          video_paths[v].stem),
                     FrameFile(k))

(***************************************************************************)
(* angle_utils.py                                                          *)
(*                                                                         *)
(* Python values are records tagged with their type.  A float is either   *)
(* NaN or a finite value; finite coordinates are whole numbers, and the    *)
(* results of sqrt and of the division are kept in fixed point with SCALE  *)
(* units per 1, rounded down, so that the quotient can overshoot [-1, 1]   *)
(* by one unit the way a rounded floating-point quotient can.              *)
(***************************************************************************)
MaxCoord == 2           \* finite coordinates are 0..MaxCoord
SCALE == 1000           \* fixed-point units per 1.0

\* objects that may sit in a coordinate slot
Num(n) == [t |-> "num", v |-> n]        \* an int or float of value n
NumStr(n) == [t |-> "numstr", v |-> n]  \* a str that float() parses, "1"
NaNCoord == [t |-> "nan", v |-> 0]      \* float("nan")
StrCoord == [t |-> "str", v |-> 0]      \* a str that float() rejects, "abc"
NoneCoord == [t |-> "None", v |-> 0]    \* None
HugeCoord == [t |-> "huge", v |-> 0]    \* an int beyond the float range, 10**400

\* objects that may be passed as a point
NonePoint == [t |-> "None", xs |-> <<>>]
TuplePoint(xs) == [t |-> "tuple", xs |-> xs]
ListPoint(xs) == [t |-> "list", xs |-> xs]

\* floats
Fin(n) == [nan |-> FALSE, v |-> n]
NaN == [nan |-> TRUE, v |-> 0]

\* outcomes of a call
RetNone == [kind |-> "None", v |-> 0]
RetAngle(d) == [kind |-> "angle", v |-> d]
RetNaN == [kind |-> "nan", v |-> 0]
Raises(e) == [kind |-> e, v |-> 0]

\* float(x): the float, or the exception it raises
ToFloat(x) ==
    CASE x.t \in {"num", "numstr"} -> [exc |-> "", f |-> Fin(x.v)]
      [] x.t = "nan"  -> [exc |-> "", f |-> NaN]
      [] x.t = "str"  -> [exc |-> "ValueError", f |-> NaN]
      [] x.t = "None" -> [exc |-> "TypeError", f |-> NaN]
      [] x.t = "huge" -> [exc |-> "OverflowError", f |-> NaN]

\* except (ValueError, TypeError, IndexError): return None
Caught(e) == e \in {"ValueError", "TypeError", "IndexError"}

FSub(x, y) == IF x.nan \/ y.nan THEN NaN ELSE Fin(x.v - y.v)

\* largest r in lo..hi with r*r <= n, by bisection
RECURSIVE SqrtBetween(_, _, _)
SqrtBetween(n, lo, hi) ==
    IF lo >= hi THEN lo
    ELSE LET mid == (lo + hi + 1) \div 2
         IN  IF mid <= n \div mid THEN SqrtBetween(n, mid, hi)
             ELSE SqrtBetween(n, lo, mid - 1)

\* sqrt rounded down
ISqrt(n) == SqrtBetween(n, 0, n)

\* np.linalg.norm of a 2-vector, in 1/SCALE units
Norm(vec) ==
    IF vec[1].nan \/ vec[2].nan THEN NaN
    ELSE Fin(ISqrt((vec[1].v * vec[1].v + vec[2].v * vec[2].v) * SCALE * SCALE))

\* np.dot of two 2-vectors
Dot(u, w) ==
    IF u[1].nan \/ u[2].nan \/ w[1].nan \/ w[2].nan THEN NaN
    ELSE Fin(u[1].v * w[1].v + u[2].v * w[2].v)

\* dot / (norm1 * norm2), in 1/SCALE units: the product is rounded down to
\* 1/SCALE units and so is the quotient
Quotient(dot, norm1, norm2) ==
    IF dot.nan \/ norm1.nan \/ norm2.nan THEN NaN
    ELSE Fin((dot.v * SCALE * SCALE) \div ((norm1.v * norm2.v) \div SCALE))

\* np.clip(x, -1.0, 1.0)
NoClip(x) == x
Clip(x) ==
    IF x.nan THEN NaN
    ELSE IF x.v < -SCALE THEN Fin(-SCALE)
    ELSE IF x.v > SCALE THEN Fin(SCALE)
    ELSE x

\* cos(d degrees) * 10^6 for d = 0..90
COS_TABLE == <<
    1000000, 999848, 999391, 998630, 997564, 996195, 994522,
    992546, 990268, 987688, 984808, 981627, 978148, 974370,
    970296, 965926, 961262, 956305, 951057, 945519, 939693,
    933580, 927184, 920505, 913545, 906308, 898794, 891007,
    882948, 874620, 866025, 857167, 848048, 838671, 829038,
    819152, 809017, 798636, 788011, 777146, 766044, 754710,
    743145, 731354, 719340, 707107, 694658, 681998, 669131,
    656059, 642788, 629320, 615661, 601815, 587785, 573576,
    559193, 544639, 529919, 515038, 500000, 484810, 469472,
    453990, 438371, 422618, 406737, 390731, 374607, 358368,
    342020, 325568, 309017, 292372, 275637, 258819, 241922,
    224951, 207912, 190809, 173648, 156434, 139173, 121869,
    104528, 87156, 69756, 52336, 34899, 17452, 0 >>

CosMicro(d) == IF d <= 90 THEN COS_TABLE[d + 1] ELSE -COS_TABLE[181 - d]

\* np.degrees(np.arccos(x)) in whole degrees, rounded up; NaN outside
\* [-1, 1] (numpy warns and returns nan, it does not raise)
ArcCosDegrees(x) ==
    IF x.nan \/ x.v < -SCALE \/ x.v > SCALE THEN NaN
    ELSE Fin(CHOOSE d \in 0..180 :
                /\ CosMicro(d) * SCALE <= x.v * 1000000
                /\ d > 0 => CosMicro(d - 1) * SCALE > x.v * 1000000)

\* norm1 == 0.0 or norm2 == 0.0
IsZeroNorm(norm1, norm2) ==
    \/ (~norm1.nan /\ norm1.v = 0)
    \/ (~norm2.nan /\ norm2.v = 0)

\* the body of compute_angle after the three conversions succeeded
AngleOfFloats(pa, pb, pc3) ==
    LET vector1 == <<FSub(pa[1], pb[1]), FSub(pa[2], pb[2])>>
        vector2 == <<FSub(pc3[1], pb[1]), FSub(pc3[2], pb[2])>>
        norm1 == Norm(vector1)
        norm2 == Norm(vector2)
    IN  IF IsZeroNorm(norm1, norm2) THEN RetNone
        ELSE LET cosine_angle == Clip(Quotient(Dot(vector1, vector2), norm1, norm2))
                 angle_degrees == ArcCosDegrees(cosine_angle)
             IN  IF angle_degrees.nan THEN RetNaN ELSE RetAngle(angle_degrees.v)

compute_angle(a, b, c) ==
    IF a.t = "None" \/ b.t = "None" \/ c.t = "None" THEN RetNone
    ELSE IF a.t # "tuple" \/ b.t # "tuple" \/ c.t # "tuple" THEN RetNone
    ELSE IF Len(a.xs) < 2 \/ Len(b.xs) < 2 \/ Len(c.xs) < 2 THEN RetNone
    ELSE LET conv == <<ToFloat(a.xs[1]), ToFloat(a.xs[2]),
                       ToFloat(b.xs[1]), ToFloat(b.xs[2]),
                       ToFloat(c.xs[1]), ToFloat(c.xs[2])>>
             failed == {i \in 1..6 : conv[i].exc # ""}
         IN  IF failed # {}
             THEN LET first == CHOOSE i \in failed : \A j \in failed : i <= j
                  IN  IF Caught(conv[first].exc) THEN RetNone
                      ELSE Raises(conv[first].exc)
             ELSE AngleOfFloats(<<conv[1].f, conv[2].f>>,
                                <<conv[3].f, conv[4].f>>,
                                <<conv[5].f, conv[6].f>>)

\* the validated dispatch shared by the three named angles: joints is None
\* or a dict; required is the list of keys, in the order of the arguments
NamedAngle(js, required) ==
    IF js.t = "None" THEN RetNone
    ELSE IF ~(\A i \in 1..3 : required[i] \in DOMAIN js.d) THEN RetNone
    ELSE LET p1 == js.d[required[1]]
             p2 == js.d[required[2]]
             p3 == js.d[required[3]]
         IN  IF p1.t = "None" \/ p2.t = "None" \/ p3.t = "None" THEN RetNone
             ELSE IF p1.t # "tuple" \/ p2.t # "tuple" \/ p3.t # "tuple" THEN RetNone
             ELSE IF Len(p1.xs) < 2 \/ Len(p2.xs) < 2 \/ Len(p3.xs) < 2 THEN RetNone
             ELSE compute_angle(p1, p2, p3)

KNEE_KEYS == <<"hip", "knee", "ankle">>
HIP_KEYS == <<"shoulder", "hip", "knee">>
BACK_KEYS == <<"shoulder", "hip", "ankle">>

compute_knee_angle(js) == NamedAngle(js, KNEE_KEYS)
compute_hip_angle(js) == NamedAngle(js, HIP_KEYS)
compute_back_angle(js) == NamedAngle(js, BACK_KEYS)

\* ---- the inputs examined ----
Nums == {Num(n) : n \in 0..MaxCoord}
Specials == {NumStr(1), NaNCoord, StrCoord, NoneCoord, HugeCoord}

\* points: absent, not a tuple, too short, pairs of numbers, pairs with one
\* special coordinate, and triples whose third coordinate is never read
Points ==
    {NonePoint, ListPoint(<<Num(0), Num(1)>>), TuplePoint(<<>>), TuplePoint(<<Num(1)>>)}
    \cup {TuplePoint(<<x, y>>) : x \in Nums, y \in Nums}
    \cup {TuplePoint(<<s, Num(0)>>) : s \in Specials}
    \cup {TuplePoint(<<Num(0), s>>) : s \in Specials}
    \cup {TuplePoint(<<Num(1), Num(1), z>>) : z \in {Num(0), StrCoord}}

JOINT_KEYS == {"shoulder", "hip", "knee", "ankle"}

\* values of a pose dict
PosePoints ==
    {NonePoint, ListPoint(<<Num(0), Num(1)>>), TuplePoint(<<Num(1)>>),
     TuplePoint(<<Num(0), Num(0)>>), TuplePoint(<<Num(1), Num(0)>>),
     TuplePoint(<<Num(0), Num(MaxCoord)>>),
     TuplePoint(<<StrCoord, Num(0)>>), TuplePoint(<<HugeCoord, Num(0)>>)}

NoneDict == [t |-> "None", d |-> <<>>]
Dict(f) == [t |-> "dict", d |-> f]
Poses == {NoneDict} \cup
         UNION {{Dict(f) : f \in [K -> PosePoints]} : K \in SUBSET JOINT_KEYS}

NoPoints == <<NonePoint, NonePoint, NonePoint>>

CallComputeAngle ==
    /\ angle_pc = "ready"
    /\ angle_call.fn = "compute_angle"
    /\ angle_out' = compute_angle(angle_call.pts[1], angle_call.pts[2], angle_call.pts[3])
    /\ angle_pc' = "returned"
    /\ UNCHANGED <<notAngle, angle_call>>

CallComputeKneeAngle ==
    /\ angle_pc = "ready"
    /\ angle_call.fn = "compute_knee_angle"
    /\ angle_out' = compute_knee_angle(angle_call.joints)
    /\ angle_pc' = "returned"
    /\ UNCHANGED <<notAngle, angle_call>>

CallComputeHipAngle ==
    /\ angle_pc = "ready"
    /\ angle_call.fn = "compute_hip_angle"
    /\ angle_out' = compute_hip_angle(angle_call.joints)
    /\ angle_pc' = "returned"
    /\ UNCHANGED <<notAngle, angle_call>>

CallComputeBackAngle ==
    /\ angle_pc = "ready"
    /\ angle_call.fn = "compute_back_angle"
    /\ angle_out' = compute_back_angle(angle_call.joints)
    /\ angle_pc' = "returned"
    /\ UNCHANGED <<notAngle, angle_call>>

AngleNext ==
    \/ CallComputeAngle
    \/ CallComputeKneeAngle
    \/ CallComputeHipAngle
    \/ CallComputeBackAngle

\* one call of one of the four functions, on any of the inputs examined
AngleInit ==
    /\ angle_call \in
          {[fn |-> "compute_angle", pts |-> <<a, b, c>>, joints |-> NoneDict] :
                a \in Points, b \in Points, c \in Points}
          \cup {[fn |-> f, pts |-> NoPoints, joints |-> js] :
                f \in {"compute_knee_angle", "compute_hip_angle", "compute_back_angle"},
                js \in Poses}
    /\ angle_pc = "ready"
    /\ angle_out = RetNone
    /\ frame_skip = FRAME_SKIP
    /\ video_paths = <<>>
    /\ vi = 1
    /\ pc = "done"
    /\ opened = <<>>
    /\ count = 0
    /\ saved_count = 0
    /\ handles = <<>>
    /\ written = <<>>
    /\ reads_ok = <<>>
    /\ joints = <<>>
    /\ angles = [t |-> "None", d |-> <<>>]
    /\ circle_none = "raise"
    /\ overlay_pc = "idle"
    /\ overlay_out = [raised |-> "", drawn |-> <<>>]
    /\ model_loaded = FALSE
    /\ calls = <<>>

SpecAngle == AngleInit /\ [][AngleNext]_vars

\* ---- what the claims say about a point ----
IsNumber(x) == x.t \in {"num", "numstr", "nan", "huge"}
CoordEq(x, y) == x = y \/ (x.t \in {"num", "numstr"} /\ y.t \in {"num", "numstr"} /\ x.v = y.v)
SameXY(p, q) == CoordEq(p.xs[1], q.xs[1]) /\ CoordEq(p.xs[2], q.xs[2])
Malformed(p) ==
    \/ p.t # "tuple"
    \/ Len(p.xs) < 2
    \/ \E j \in 1..2 : ~IsNumber(p.xs[j])
Finite(p) == \A j \in 1..2 : p.xs[j].t \in {"num", "numstr"}

ReturnedFrom(fns) == angle_pc = "returned" /\ angle_call.fn \in fns

\* C5: compute_angle returns None, and neither raises nor returns NaN, when a
\* point is absent, has fewer than 2 coordinates, has a non-numeric x or y, or
\* when a = b or c = b in x and y; in every other case it returns an angle.
\* (Points are None or tuples, as the signature says.)
C5_AbsentExactlyWhenInvalid ==
    (/\ ReturnedFrom({"compute_angle"})
     /\ \A i \in 1..3 : angle_call.pts[i].t \in {"None", "tuple"}) =>
        LET a == angle_call.pts[1]
            b == angle_call.pts[2]
            c == angle_call.pts[3]
        IN  IF \/ \E i \in 1..3 : Malformed(angle_call.pts[i])
               \/ SameXY(a, b)
               \/ SameXY(c, b)
            THEN angle_out = RetNone
            ELSE angle_out.kind = "angle"

\* dot product and cross product of (a - b) and (c - b), exactly
ExactDot(a, b, c) ==
    (a.xs[1].v - b.xs[1].v) * (c.xs[1].v - b.xs[1].v)
    + (a.xs[2].v - b.xs[2].v) * (c.xs[2].v - b.xs[2].v)
ExactCross(a, b, c) ==
    (a.xs[1].v - b.xs[1].v) * (c.xs[2].v - b.xs[2].v)
    - (a.xs[2].v - b.xs[2].v) * (c.xs[1].v - b.xs[1].v)

\* C6: for a non-degenerate triple of finite points compute_angle returns the
\* angle at b between (a - b) and (c - b), a number of degrees in [0, 180]
\* and never NaN: 180 when the vectors point in opposite directions, 0 when
\* they point the same way, 90 when they are perpendicular, below 90 for an
\* acute and above 90 for an obtuse angle.
C6_AngleInRange ==
    ReturnedFrom({"compute_angle"}) =>
        LET a == angle_call.pts[1]
            b == angle_call.pts[2]
            c == angle_call.pts[3]
        IN  (/\ \A i \in 1..3 : ~Malformed(angle_call.pts[i]) /\ Finite(angle_call.pts[i])
             /\ ~SameXY(a, b)
             /\ ~SameXY(c, b)) =>
                LET dot == ExactDot(a, b, c)
                    cross == ExactCross(a, b, c)
                IN  /\ angle_out.kind = "angle"
                    /\ angle_out.v \in 0..180
                    /\ (cross = 0 /\ dot < 0) <=> angle_out.v = 180
                    /\ (cross = 0 /\ dot > 0) <=> angle_out.v = 0
                    /\ dot = 0 <=> angle_out.v = 90
                    /\ dot > 0 <=> angle_out.v < 90

\* a = (0,0), b = (1,0), c = (2,0) gave 180
C6_Witness ==
    /\ ReturnedFrom({"compute_angle"})
    /\ angle_call.pts = <<TuplePoint(<<Num(0), Num(0)>>),
                          TuplePoint(<<Num(1), Num(0)>>),
                          TuplePoint(<<Num(2), Num(0)>>)>>
    /\ angle_out = RetAngle(180)

RequiredKeys(fn) ==
    CASE fn = "compute_knee_angle" -> KNEE_KEYS
      [] fn = "compute_hip_angle" -> HIP_KEYS
      [] fn = "compute_back_angle" -> BACK_KEYS

\* C7: each named angle returns None when one of its three required keys is
\* missing or maps to None or to a malformed value, never raises on any pose,
\* and otherwise returns what compute_angle returns on its joints in the
\* listed order.
C7_NamedAnglesNeverRaise ==
    ReturnedFrom({"compute_knee_angle", "compute_hip_angle", "compute_back_angle"}) =>
        LET js == angle_call.joints
            req == RequiredKeys(angle_call.fn)
        IN  /\ angle_out.kind \in {"None", "angle"}
            /\ IF \/ js.t = "None"
                  \/ \E i \in 1..3 : req[i] \notin DOMAIN js.d
                  \/ \E i \in 1..3 : req[i] \in DOMAIN js.d /\ Malformed(js.d[req[i]])
               THEN angle_out = RetNone
               ELSE angle_out = compute_angle(js.d[req[1]], js.d[req[2]], js.d[req[3]])

(***************************************************************************)
(* overlays.py                                                             *)
(*                                                                         *)
(* The frame is represented by the list of cv2 drawing calls made on it.   *)
(* Angles are kept in half degrees, so that round() has ties to break.     *)
(***************************************************************************)
MaxDeviations == 1      \* joints that deviate from a base pose

\* self.connections
CONNECTIONS == <<
    <<"LEFT_SHOULDER", "RIGHT_SHOULDER">>,
    <<"LEFT_SHOULDER", "LEFT_ELBOW">>,
    <<"LEFT_ELBOW", "LEFT_WRIST">>,
    <<"RIGHT_SHOULDER", "RIGHT_ELBOW">>,
    <<"RIGHT_ELBOW", "RIGHT_WRIST">>,
    <<"LEFT_SHOULDER", "LEFT_HIP">>,
    <<"RIGHT_SHOULDER", "RIGHT_HIP">>,
    <<"LEFT_HIP", "RIGHT_HIP">>,
    <<"LEFT_HIP", "LEFT_KNEE">>,
    <<"LEFT_KNEE", "LEFT_ANKLE">>,
    <<"RIGHT_HIP", "RIGHT_KNEE">>,
    <<"RIGHT_KNEE", "RIGHT_ANKLE">>,
    <<"LEFT_ANKLE", "LEFT_HEEL">>,
    <<"LEFT_HEEL", "LEFT_FOOT_INDEX">>,
    <<"RIGHT_ANKLE", "RIGHT_HEEL">>,
    <<"RIGHT_HEEL", "RIGHT_FOOT_INDEX">>,
    <<"NOSE", "LEFT_EYE">>,
    <<"NOSE", "RIGHT_EYE">>,
    <<"LEFT_EYE", "LEFT_EAR">>,
    <<"RIGHT_EYE", "RIGHT_EAR">> >>

\* the joint names the connections use, in the order a provider inserts them
JOINT_NAMES == <<
    "NOSE", "LEFT_EYE", "RIGHT_EYE", "LEFT_EAR", "RIGHT_EAR",
    "LEFT_SHOULDER", "RIGHT_SHOULDER", "LEFT_ELBOW", "RIGHT_ELBOW",
    "LEFT_WRIST", "RIGHT_WRIST", "LEFT_HIP", "RIGHT_HIP",
    "LEFT_KNEE", "RIGHT_KNEE", "LEFT_ANKLE", "RIGHT_ANKLE",
    "LEFT_HEEL", "RIGHT_HEEL", "LEFT_FOOT_INDEX", "RIGHT_FOOT_INDEX" >>

\* pixel coordinates, and None in their place
Px(x, y) == [t |-> "tuple", x |-> x, y |-> y]
NonePx == [t |-> "None", x |-> 0, y |-> 0]

\* drawing calls
Line(pt1, pt2) == [op |-> "line", p1 |-> pt1, p2 |-> pt2, text |-> ""]
Circle(center) == [op |-> "circle", p1 |-> center, p2 |-> NonePx, text |-> ""]
PutText(text, org) == [op |-> "putText", p1 |-> org, p2 |-> NonePx, text |-> text]

\* joints.get(key) on a dict kept as its list of items
Get(js, key) ==
    IF \E i \in 1..Len(js) : js[i].key = key
    THEN js[CHOOSE i \in 1..Len(js) : js[i].key = key].coord
    ELSE NonePx

\* if pt1 is None or pt2 is None: continue
SkipsOnlyBothAbsent(pt1, pt2) == pt1.t = "None" /\ pt2.t = "None"
SkipsLine(pt1, pt2) == pt1.t = "None" \/ pt2.t = "None"

RECURSIVE ConnectionsFrom(_, _)
ConnectionsFrom(js, i) ==
    IF i > Len(CONNECTIONS) THEN <<>>
    ELSE LET pt1 == Get(js, CONNECTIONS[i][1])
             pt2 == Get(js, CONNECTIONS[i][2])
         IN  (IF SkipsLine(pt1, pt2) THEN <<>> ELSE <<Line(pt1, pt2)>>)
             \o ConnectionsFrom(js, i + 1)

\* the cv2.line calls of draw_connections(frame, joints)
draw_connections(js) == ConnectionsFrom(js, 1)

\* round() of a float given in half degrees: ties go to the even integer
Round(h) ==
    IF h % 2 = 0 THEN h \div 2
    ELSE IF ((h - 1) \div 2) % 2 = 0 THEN (h - 1) \div 2 ELSE (h + 1) \div 2

\* the cv2.putText calls of draw_angle(frame, angle, coord)
draw_angle(angle, coord) ==
    IF angle.t = "None" THEN <<>>
    ELSE <<PutText(ToString(Round(angle.h)), coord)>>

\* angles.get(key)
NoAngle == [t |-> "None", h |-> 0]
AngleValue(h) == [t |-> "float", h |-> h]
AnglesGet(ang, key) == IF key \in DOMAIN ang THEN ang[key] ELSE NoAngle

\* the loop over joints.items() from item i on; cn is what cv2.circle does
\* with a None center in this build: "raise" or "origin" (it takes the
\* default Point(0, 0))
RECURSIVE ItemsFrom(_, _, _, _)
ItemsFrom(js, ang, cn, i) ==
    IF i > Len(js) THEN [raised |-> "", drawn |-> <<>>]
    ELSE LET key == js[i].key
             coord == js[i].coord
             angle == AnglesGet(ang, key)
         IN  IF coord.t = "None" /\ cn = "raise"
             THEN [raised |-> "cv2.error", drawn |-> <<>>]
             ELSE LET marker == <<Circle(IF coord.t = "None" THEN Px(0, 0) ELSE coord)>>
                  IN  IF angle.t = "None"
                      THEN LET rest == ItemsFrom(js, ang, cn, i + 1)
                           IN  [raised |-> rest.raised, drawn |-> marker \o rest.drawn]
                      ELSE IF coord.t = "None"
                      THEN [raised |-> "TypeError", drawn |-> marker]
                      ELSE LET rest == ItemsFrom(js, ang, cn, i + 1)
                           IN  [raised |-> rest.raised,
                                drawn |-> marker
                                          \o draw_angle(angle, Px(coord.x + 10, coord.y))
                                          \o rest.drawn]

\* draw_skeleton(frame, joints, angles): angles is None or a dict
draw_skeleton(js, angs, cn) ==
    LET ang == IF angs.t = "None" THEN <<>> ELSE angs.d
        items == ItemsFrom(js, ang, cn, 1)
    IN  [raised |-> items.raised, drawn |-> draw_connections(js) \o items.drawn]

\* ---- the inputs examined ----
NameIndex == 1..Len(JOINT_NAMES)

\* where joint i sits when it has a coordinate
PixelOf(i) == Px(20 * i, 10 * i + 5)

\* the dict whose items are the joints of `present` with their pixels and the
\* joints of `none` with None, in JOINT_NAMES order
RECURSIVE ItemsOf(_, _, _)
ItemsOf(present, none, i) ==
    IF i > Len(JOINT_NAMES) THEN <<>>
    ELSE (IF i \in present THEN <<[key |-> JOINT_NAMES[i], coord |-> PixelOf(i)]>>
          ELSE IF i \in none THEN <<[key |-> JOINT_NAMES[i], coord |-> NonePx]>>
          ELSE <<>>)
         \o ItemsOf(present, none, i + 1)

SmallSubsets(S) == {T \in SUBSET S : Cardinality(T) <= MaxDeviations}

\* the poses the deviations start from: every joint, no joint, the nose and
\* the left side only
LeftSide == {i \in NameIndex : JOINT_NAMES[i] \in
                {"NOSE", "LEFT_EYE", "LEFT_EAR", "LEFT_SHOULDER", "LEFT_ELBOW", "LEFT_WRIST",
                 "LEFT_HIP", "LEFT_KNEE", "LEFT_ANKLE", "LEFT_HEEL", "LEFT_FOOT_INDEX"}}
BasePoses == {NameIndex, {}, LeftSide}

\* a base pose in which a few joints deviate: a deviating joint maps to None,
\* or else is missing if the base has it and present if the base lacks it
JointDicts ==
    UNION {{ItemsOf((base \ dev) \cup ((dev \ base) \ none), none, 1) : none \in SUBSET dev} :
           base \in BasePoses, dev \in SmallSubsets(NameIndex)}

ANGLE_KEY == "LEFT_KNEE"
AngleArgs ==
    {[t |-> "None", d |-> <<>>], [t |-> "dict", d |-> <<>>]}
    \cup {[t |-> "dict", d |-> [k \in {ANGLE_KEY} |-> a]] :
            a \in {NoAngle, AngleValue(179), AngleValue(183)}}

CallDrawConnections ==
    /\ overlay_pc = "ready"
    /\ overlay_out' = [raised |-> "", drawn |-> draw_connections(joints)]
    /\ overlay_pc' = "draw_connections"
    /\ UNCHANGED <<notOverlay, joints, angles, circle_none>>

CallDrawSkeleton ==
    /\ overlay_pc = "ready"
    /\ \E angs \in AngleArgs, cn \in {"raise", "origin"} :
          /\ angles' = angs
          /\ circle_none' = cn
          /\ overlay_out' = draw_skeleton(joints, angs, cn)
    /\ overlay_pc' = "draw_skeleton"
    /\ UNCHANGED <<notOverlay, joints>>

OverlayNext ==
    \/ CallDrawConnections
    \/ CallDrawSkeleton

\* one call on a fresh frame, on any of the inputs examined
OverlayInit ==
    /\ joints \in JointDicts
    /\ angles = [t |-> "None", d |-> <<>>]
    /\ circle_none = "raise"
    /\ overlay_pc = "ready"
    /\ overlay_out = [raised |-> "", drawn |-> <<>>]
    /\ frame_skip = FRAME_SKIP
    /\ video_paths = <<>>
    /\ vi = 1
    /\ pc = "done"
    /\ opened = <<>>
    /\ count = 0
    /\ saved_count = 0
    /\ handles = <<>>
    /\ written = <<>>
    /\ reads_ok = <<>>
    /\ angle_call = [fn |-> "none", pts |-> NoPoints, joints |-> NoneDict]
    /\ angle_pc = "returned"
    /\ angle_out = RetNone
    /\ model_loaded = FALSE
    /\ calls = <<>>

SpecOverlay == OverlayInit /\ [][OverlayNext]_vars

\* ---- what the claims say about a joints map ----
HasPixel(name) == \E i \in 1..Len(joints) : joints[i].key = name /\ joints[i].coord.t = "tuple"
PixelAt(name) == joints[CHOOSE i \in 1..Len(joints) : joints[i].key = name].coord
BothPresent == {i \in 1..Len(CONNECTIONS) :
                    HasPixel(CONNECTIONS[i][1]) /\ HasPixel(CONNECTIONS[i][2])}

\* C8: draw_connections draws one line per connection pair whose two
\* endpoints are both present in the joints map, in list order, between the
\* two pixel coordinates, and nothing for any other pair; it does not raise.
C8_LinesIffBothEndpoints ==
    overlay_pc = "draw_connections" =>
        /\ overlay_out.raised = ""
        /\ Len(overlay_out.drawn) = Cardinality(BothPresent)
        /\ \A i \in BothPresent :
                overlay_out.drawn[Cardinality({j \in BothPresent : j <= i})] =
                    Line(PixelAt(CONNECTIONS[i][1]), PixelAt(CONNECTIONS[i][2]))

\* some pairs were drawn while a pair with exactly one endpoint was skipped
C8_Witness ==
    /\ overlay_pc = "draw_connections"
    /\ Len(overlay_out.drawn) > 0
    /\ \E i \in 1..Len(CONNECTIONS) :
            HasPixel(CONNECTIONS[i][1]) /\ ~HasPixel(CONNECTIONS[i][2])

WithPixel == {i \in 1..Len(joints) : joints[i].coord.t = "tuple"}
Labelled == {i \in WithPixel :
                angles.t = "dict" /\ joints[i].key \in DOMAIN angles.d
                /\ angles.d[joints[i].key].t # "None"}
DrawnOps(kind) == {n \in 1..Len(overlay_out.drawn) : overlay_out.drawn[n].op = kind}

\* C9: draw_skeleton never raises when a joint is missing or maps to None or
\* an angle is missing: it draws the connections first, then one marker for
\* each joint that has a pixel coordinate and one label, at x + 10, for each
\* of those whose angle is not None, and skips every element without data.
C9_SkeletonNeverRaises ==
    overlay_pc = "draw_skeleton" =>
        /\ overlay_out.raised = ""
        /\ Cardinality(DrawnOps("line")) = Cardinality(BothPresent)
        /\ \A n \in DrawnOps("line") : n <= Cardinality(BothPresent)
        /\ Cardinality(DrawnOps("circle")) = Cardinality(WithPixel)
        /\ \A i \in WithPixel : \E n \in DrawnOps("circle") :
                overlay_out.drawn[n].p1 = joints[i].coord
        /\ Cardinality(DrawnOps("putText")) = Cardinality(Labelled)
        /\ \A i \in Labelled : \E n \in DrawnOps("putText") :
                overlay_out.drawn[n].p1 = Px(joints[i].coord.x + 10, joints[i].coord.y)

(***************************************************************************)
(* pose_estimator.py                                                       *)
(***************************************************************************)
MaxCalls == 4           \* calls made on one estimator
MaxBatch == 2           \* longest batch passed to predict_batch

\* the pose the stub returns, in tenths
POSE == [shoulder |-> <<5, 5, 5>>, hip |-> <<5, 6, 5>>,
         knee |-> <<5, 7, 5>>, ankle |-> <<5, 8, 5>>]

NOT_LOADED == "RuntimeError: PoseEstimator model not loaded. Call load_model() first."

\* what a call leaves in `calls`: the method, the number of frames passed,
\* the exception raised ("" if none) and the poses returned
Call(method, n, raised, poses) ==
    [method |-> method, frames |-> n, raised |-> raised, poses |-> poses]

\* if not self.model_loaded: raise RuntimeError(...)
RejectsWhenLoaded(loaded) == loaded
Rejects(loaded) == ~loaded

\* predict_frame(frame): the exception raised ("" if none) and the pose
predict_frame(loaded) ==
    IF Rejects(loaded) THEN [raised |-> NOT_LOADED, poses |-> <<>>]
    ELSE [raised |-> "", poses |-> <<POSE>>]

\* predict_batch(batch) on n frames: predict_frame on each, in order; the
\* first exception leaves the loop
RECURSIVE predict_batch(_, _)
predict_batch(loaded, n) ==
    IF n = 0 THEN [raised |-> "", poses |-> <<>>]
    ELSE LET first == predict_frame(loaded)
         IN  IF first.raised # "" THEN first
             ELSE LET rest == predict_batch(loaded, n - 1)
                  IN  [raised |-> rest.raised,
                       poses |-> IF rest.raised # "" THEN <<>> ELSE first.poses \o rest.poses]

\* load_model(): self.model_loaded = True
LoadModel ==
    /\ Len(calls) < MaxCalls
    /\ model_loaded' = TRUE
    /\ calls' = Append(calls, Call("load_model", 0, "", <<>>))
    /\ UNCHANGED notEstimator

\* one predict_frame(frame) call
PredictFrame ==
    /\ Len(calls) < MaxCalls
    /\ LET r == predict_frame(model_loaded)
       IN  calls' = Append(calls, Call("predict_frame", 1, r.raised, r.poses))
    /\ UNCHANGED <<notEstimator, model_loaded>>

\* one predict_batch(batch) call, on a batch of any length
PredictBatch ==
    /\ Len(calls) < MaxCalls
    /\ \E n \in 0..MaxBatch :
          LET r == predict_batch(model_loaded, n)
          IN  calls' = Append(calls, Call("predict_batch", n, r.raised, r.poses))
    /\ UNCHANGED <<notEstimator, model_loaded>>

EstimatorNext ==
    \/ LoadModel
    \/ PredictFrame
    \/ PredictBatch

\* PoseEstimator(): self.model = None, self.model_loaded = False
EstimatorInit ==
    /\ model_loaded = FALSE
    /\ calls = <<>>
    /\ frame_skip = FRAME_SKIP
    /\ video_paths = <<>>
    /\ vi = 1
    /\ pc = "done"
    /\ opened = <<>>
    /\ count = 0
    /\ saved_count = 0
    /\ handles = <<>>
    /\ written = <<>>
    /\ reads_ok = <<>>
    /\ angle_call = [fn |-> "none", pts |-> NoPoints, joints |-> NoneDict]
    /\ angle_pc = "returned"
    /\ angle_out = RetNone
    /\ joints = <<>>
    /\ angles = [t |-> "None", d |-> <<>>]
    /\ circle_none = "raise"
    /\ overlay_pc = "idle"
    /\ overlay_out = [raised |-> "", drawn |-> <<>>]

SpecEstimator == EstimatorInit /\ [][EstimatorNext]_vars

LoadedBefore(i) == \E j \in 1..(i - 1) : calls[j].method = "load_model"

\* C10: the estimator is Ready exactly when load_model has been called, so it
\* starts Unloaded and never goes back; each predict_frame call raised the
\* not-loaded error exactly when no load_model call came before it, and
\* returned the pose otherwise.
C10_UnloadedThenReady ==
    /\ model_loaded <=> LoadedBefore(Len(calls) + 1)
    /\ \A i \in 1..Len(calls) :
            calls[i].method = "predict_frame" =>
                IF LoadedBefore(i)
                THEN calls[i].raised = "" /\ calls[i].poses = <<POSE>>
                ELSE calls[i].raised = NOT_LOADED /\ calls[i].poses = <<>>

\* predict_frame failed, load_model was called, predict_frame then succeeded
C10_Witness ==
    \E i, j, k \in 1..Len(calls) :
        /\ i < j /\ j < k
        /\ calls[i].method = "predict_frame" /\ calls[i].raised = NOT_LOADED
        /\ calls[j].method = "load_model"
        /\ calls[k].method = "predict_frame" /\ calls[k].poses = <<POSE>>
        /\ model_loaded


====
